---- MODULE Spec2Model ----
(***************************************************************************)
(* pineback2: the document store (core/models.py), the twin generator and  *)
(* the selection assistant (core/ai_utils.py) and the request handlers     *)
(* that drive them (core/views.py).                                        *)
(*                                                                         *)
(* A text is a sequence of tokens; a token is a one-character string or    *)
(* one of the two literal tags of the assistant's reply convention.       *)
(* Python's None is the empty tuple None and a value v that may be None    *)
(* is Some(v), the one-element tuple.                                      *)
(***************************************************************************)
EXTENDS Integers, Sequences, FiniteSets, TLC

\* ------------------------------------------------------------------ bounds
MaxDocs == 2
NumProcs == 2
MaxTwinRows == 3
MaxRespLen == 5
MaxFallbackLen == 4
MaxListLen == 2

DocIds == 1..MaxDocs
Procs == 1..NumProcs

None == << >>
Some(v) == << v >>

\* The texts the external model may answer a twin prompt with: two distinct
\* answers tell an overwritten twin from a kept one
Texts == { << "x" >>, << "y" >> }

\* ai_utils.py:43 and ai_utils.py:100, the two diagnostic blocks
WarningBlock == << "## API Key Not Configured" >>
ErrorBlock == << "## AI Generation Error" >>

VARIABLES
    client,        \* ai_utils.client: "none" or "configured", fixed at import
    documents,     \* the Document table: a set of rows
    nextDocId,     \* the Document table's auto-increment key
    twins,         \* the AITwin table: a set of rows
    nextTwinId,    \* the AITwin table's auto-increment key
    sync,          \* sync[p]: the sync_ai_twin request p (one process per request);
                   \* a finished request keeps its response and the row it inserted
    lastReturned,  \* lastReturned[d]: the text the last successful sync of d returned
    assist,        \* the ai_assist request
    loaded         \* the response of the last get_document request

vars ==
    << client, documents, nextDocId, twins, nextTwinId, sync, lastReturned, assist, loaded >>

\* ------------------------------------------------------------ the store
\* models.py: Document.parent is nullable; 0 stands for NULL
NoParent == 0

DocumentExists(d) == \E r \in documents : r.id = d

Children(S) == { r.id : r \in { x \in documents : x.parent \in S } }

Cascade_RowOnly(S) == S

RECURSIVE Cascade(_)
\* on_delete=CASCADE along Document.parent: S and everything below it
Cascade(S) == IF Children(S) \subseteq S THEN S ELSE Cascade(S \cup Children(S))

TwinRows(d) == { r \in twins : r.document = d }

UniqueDocument_NotUnique(d) == TRUE

\* AITwin.document is a OneToOneField: the column is UNIQUE
UniqueDocument(d) == TwinRows(d) = {}

ForeignKeyOK_Unchecked(d) == TRUE

\* AITwin.document is a foreign key to Document, checked when the write commits
ForeignKeyOK(d) == DocumentExists(d)

get_twin_content_EmptyDefault(d) ==
    IF TwinRows(d) = {} THEN Some(<< >>)
    ELSE Some((CHOOSE r \in TwinRows(d) : TRUE).content_ai)

\* get_twin_content: document.twin.content_ai, or None on DoesNotExist
get_twin_content(d) ==
    IF TwinRows(d) = {} THEN None
    ELSE Some((CHOOSE r \in TwinRows(d) : TRUE).content_ai)

\* ------------------------------------------------------- sync_ai_twin
IdleSync ==
    [ pc |-> "idle", document |-> 0, ai_content |-> None, twin |-> 0, created |-> FALSE,
      result |-> None, outcome |-> "none", calls |-> 0 ]

\* views.py sync_ai_twin up to the external call of generate_twin_content
SyncStart(p, d) ==
    /\ sync[p].pc = "idle"
    /\ IF ~DocumentExists(d)
       THEN sync' = [ sync EXCEPT ![p] =
                [ IdleSync EXCEPT !.pc = "done", !.outcome = "404" ] ]
       ELSE IF client = "none"
       THEN sync' = [ sync EXCEPT ![p] =
                [ IdleSync EXCEPT !.pc = "done", !.outcome = "noconfig",
                                  !.result = Some(WarningBlock) ] ]
       ELSE sync' = [ sync EXCEPT ![p] =
                [ IdleSync EXCEPT !.pc = "call", !.document = d, !.calls = 1 ] ]
    /\ UNCHANGED << client, loaded, assist, documents, nextDocId, twins, nextTwinId, lastReturned >>

\* client.messages.create returns, message.content[0].text is read and
\* get_or_create runs its SELECT for the twin of the document
CallReturn(p, t) ==
    /\ sync[p].pc = "call"
    /\ LET rows == TwinRows(sync[p].document) IN
       IF rows # {}
       THEN sync' = [ sync EXCEPT ![p].pc = "save", ![p].ai_content = Some(t),
                                  ![p].twin = (CHOOSE r \in rows : TRUE).id ]
       ELSE sync' = [ sync EXCEPT ![p].pc = "create", ![p].ai_content = Some(t) ]
    /\ UNCHANGED << client, loaded, assist, documents, nextDocId, twins, nextTwinId, lastReturned >>

\* the except branch: the error block is returned
Failed(s) ==
    [ IdleSync EXCEPT !.pc = "done", !.outcome = "error", !.result = Some(ErrorBlock),
                      !.calls = s.calls, !.twin = s.twin, !.created = s.created ]

\* return ai_content
Succeeded(s) ==
    [ IdleSync EXCEPT !.pc = "done", !.outcome = "ok", !.result = s.ai_content,
                      !.calls = s.calls ]

\* client.messages.create raises, the response has no content, or the SELECT raises
CallFail(p) ==
    /\ sync[p].pc = "call"
    /\ sync' = [ sync EXCEPT ![p] = Failed(sync[p]) ]
    /\ UNCHANGED << client, loaded, assist, documents, nextDocId, twins, nextTwinId, lastReturned >>

\* get_or_create after DoesNotExist: INSERT an empty twin; on IntegrityError SELECT again
GetOrCreateCreate(p) ==
    /\ sync[p].pc = "create"
    /\ nextTwinId <= MaxTwinRows
    /\ LET d == sync[p].document
           rows == TwinRows(d) IN
       IF UniqueDocument(d) /\ ForeignKeyOK(d)
       THEN /\ twins' = twins \cup { [ id |-> nextTwinId, document |-> d, content_ai |-> << >> ] }
            /\ nextTwinId' = nextTwinId + 1
            /\ sync' = [ sync EXCEPT ![p].pc = "save", ![p].twin = nextTwinId,
                                      ![p].created = TRUE ]
       ELSE /\ UNCHANGED << twins, nextTwinId >>
            /\ IF rows # {}
               THEN sync' = [ sync EXCEPT ![p].pc = "save",
                                          ![p].twin = (CHOOSE r \in rows : TRUE).id ]
               ELSE sync' = [ sync EXCEPT ![p] = Failed(sync[p]) ]
    /\ UNCHANGED << client, loaded, assist, documents, nextDocId, lastReturned >>

SaveRow_KeepContent(r, content) == r

\* twin.content_ai = ai_content; twin.save() writes the row
SaveRow(r, content) == [ r EXCEPT !.content_ai = content ]

\* twin.save(): UPDATE by primary key, INSERT if no row was updated; return ai_content
Save(p) ==
    /\ sync[p].pc = "save"
    /\ LET d == sync[p].document
           t == sync[p].ai_content[1]
           mine == { r \in twins : r.id = sync[p].twin }
           fresh == [ id |-> sync[p].twin, document |-> d, content_ai |-> << >> ] IN
       IF mine # {}
       THEN /\ twins' = (twins \ mine) \cup { SaveRow(r, t) : r \in mine }
            /\ sync' = [ sync EXCEPT ![p] = Succeeded(sync[p]) ]
            /\ lastReturned' = [ lastReturned EXCEPT ![d] = Some(t) ]
       ELSE IF UniqueDocument(d) /\ ForeignKeyOK(d)
       THEN /\ twins' = twins \cup { SaveRow(fresh, t) }
            /\ sync' = [ sync EXCEPT ![p] = Succeeded(sync[p]) ]
            /\ lastReturned' = [ lastReturned EXCEPT ![d] = Some(t) ]
       ELSE /\ sync' = [ sync EXCEPT ![p] = Failed(sync[p]) ]
            /\ UNCHANGED << twins, lastReturned >>
    /\ UNCHANGED << client, loaded, assist, documents, nextDocId, nextTwinId >>

\* a store statement raises (database locked, connection lost): the except branch
StoreFault(p) ==
    /\ sync[p].pc \in {"create", "save"}
    /\ sync' = [ sync EXCEPT ![p] = Failed(sync[p]) ]
    /\ UNCHANGED << client, loaded, assist, documents, nextDocId, twins, nextTwinId, lastReturned >>

\* ------------------------------------------------- document handlers
\* views.py create_document
create_document(parent_id) ==
    /\ nextDocId <= MaxDocs
    /\ IF parent_id # NoParent /\ ~DocumentExists(parent_id)
       THEN UNCHANGED << documents, nextDocId >>
       ELSE /\ documents' = documents \cup
                  { [ id |-> nextDocId, title |-> "Untitled Document", content |-> "",
                      parent |-> parent_id, order |-> 0 ] }
            /\ nextDocId' = nextDocId + 1
    /\ UNCHANGED << client, loaded, assist, twins, nextTwinId, sync, lastReturned >>

\* get_object_or_404 found no row
NotFound == [ status |-> 404, doc |-> None, ai_content |-> None ]

\* render(request, 'core/partials/doc_load_sync.html', {'doc': doc, 'ai_content': ai_content})
Rendered(doc, ai_content) == [ status |-> 200, doc |-> Some(doc), ai_content |-> ai_content ]

\* views.py get_document
get_document(doc_id) ==
    /\ loaded' = Some(IF ~DocumentExists(doc_id) THEN NotFound
                      ELSE Rendered(CHOOSE r \in documents : r.id = doc_id,
                                    get_twin_content(doc_id)))
    /\ UNCHANGED << client, assist, documents, nextDocId, twins, nextTwinId, sync,
                    lastReturned >>

\* views.py delete_document: doc.delete() cascades to children and twins
delete_document(doc_id) ==
    /\ DocumentExists(doc_id)
    /\ LET gone == Cascade({doc_id}) IN
       /\ documents' = { r \in documents : r.id \notin gone }
       /\ twins' = { r \in twins : r.document \notin gone }
       /\ lastReturned' = [ d \in DocIds |-> IF d \in gone THEN None ELSE lastReturned[d] ]
    /\ UNCHANGED << client, loaded, assist, nextDocId, nextTwinId, sync >>

\* views.py update_document: a POST stores the posted title and content, a
\* field that is not posted keeps its value; a GET stores nothing
update_document(doc_id, method, title, content) ==
    /\ IF DocumentExists(doc_id) /\ method = "POST"
       THEN documents' =
                { IF r.id = doc_id
                  THEN [ r EXCEPT !.title = IF title = None THEN r.title ELSE title[1],
                                  !.content = IF content = None THEN r.content ELSE content[1] ]
                  ELSE r : r \in documents }
       ELSE UNCHANGED documents
    /\ UNCHANGED << client, loaded, assist, nextDocId, twins, nextTwinId, sync, lastReturned >>

\* the values a client posts to update_document
Titles == { "T" }
Contents == { "c" }

\* an element of the posted order list that is no number (a JSON string such
\* as "x"): filter(id=...) raises ValueError; -1 stands for it
BadId == -1

\* the posted order lists: ids of documents that exist or not, repeated or
\* not, and values that are no ids
OrderLists == UNION { [1..k -> DocIds \cup { BadId }] : k \in 0..MaxListLen }

ApplyUpdate_AllRows(D, doc_id, index) == { [ r EXCEPT !.order = index ] : r \in D }

\* Document.objects.filter(id=doc_id).update(order=index)
ApplyUpdate(D, doc_id, index) ==
    { IF r.id = doc_id THEN [ r EXCEPT !.order = index ] ELSE r : r \in D }

RECURSIVE UpdateEach(_, _, _)
\* for index, doc_id in enumerate(order_list): one UPDATE per element; an
\* element that raises ends the loop and keeps the updates made so far
UpdateEach(D, L, index) ==
    IF L = << >> \/ Head(L) = BadId THEN D
    ELSE UpdateEach(ApplyUpdate(D, Head(L), index), Tail(L), index + 1)

Reordered_FromOne(order_list) == UpdateEach(documents, order_list, 1)

\* the Document table after the loop over enumerate(order_list), which counts from 0
Reordered(order_list) == UpdateEach(documents, order_list, 0)

\* views.py reorder_documents: data.get('order', []) is walked and each element
\* updated; parent_id is read and not used
reorder_documents(order_list) ==
    /\ documents' = Reordered(order_list)
    /\ UNCHANGED << client, loaded, assist, nextDocId, twins, nextTwinId, sync, lastReturned >>

\* ------------------------------------------------------ ai_assist_text
\* the tags of the reply convention (ai_utils.py:154, 206)
OPEN == "<suggested_text>"
CLOSE == "</suggested_text>"

\* str.strip() and str.lower() on the characters the model uses
Whitespace == { " ", "\n", "\t" }

LowerChar(c) ==
    CASE c = "D" -> "d"
      [] c = "E" -> "e"
      [] c = "F" -> "f"
      [] c = "I" -> "i"
      [] c = "T" -> "t"
      [] OTHER -> c

Lower(s) == [ k \in 1..Len(s) |-> LowerChar(s[k]) ]

RECURSIVE LStrip(_)
LStrip(s) == IF s # << >> /\ Head(s) \in Whitespace THEN LStrip(Tail(s)) ELSE s

RECURSIVE RStrip(_)
RStrip(s) ==
    IF s # << >> /\ s[Len(s)] \in Whitespace THEN RStrip(SubSeq(s, 1, Len(s) - 1)) ELSE s

Strip(s) == RStrip(LStrip(s))

\* kw in s: substring containment
Contains(kw, s) ==
    \E i \in 0..(Len(s) - Len(kw)) : SubSeq(s, i + 1, i + Len(kw)) = kw

\* ai_utils.py:187-189
modification_keywords ==
    { << "i", "m", "p", "r", "o", "v", "e" >>,
      << "f", "i", "x" >>,
      << "r", "e", "w", "r", "i", "t", "e" >>,
      << "c", "h", "a", "n", "g", "e" >>,
      << "m", "a", "k", "e" >>,
      << "s", "h", "o", "r", "t", "e", "n" >>,
      << "e", "x", "p", "a", "n", "d" >>,
      << "g", "r", "a", "m", "m", "a", "r" >>,
      << "s", "p", "e", "l", "l", "i", "n", "g" >>,
      << "p", "r", "o", "f", "e", "s", "s", "i", "o", "n", "a", "l" >>,
      << "c", "l", "e", "a", "r", "e", "r" >>,
      << "c", "o", "n", "c", "i", "s", "e" >>,
      << "b", "e", "t", "t", "e", "r" >>,
      << "t", "r", "a", "n", "s", "l", "a", "t", "e" >>,
      << "s", "i", "m", "p", "l", "i", "f", "y" >>,
      << "f", "o", "r", "m", "a", "l" >>,
      << "c", "a", "s", "u", "a", "l" >>,
      << "c", "o", "r", "r", "e", "c", "t" >>,
      << "e", "d", "i", "t" >> }

is_modification_request_CaseSensitive(user_prompt) ==
    \E kw \in modification_keywords : Contains(kw, user_prompt)

\* ai_utils.py:190: any(kw in user_prompt.lower() for kw in modification_keywords)
is_modification_request(user_prompt) ==
    \E kw \in modification_keywords : Contains(kw, Lower(user_prompt))

\* <suggested_text>(.*?)</suggested_text> matched at position i of s, DOTALL:
\* the closing tag the lazy group stops at, or 0 when there is no match at i
MatchEnd(s, i) ==
    IF s[i] = OPEN /\ \E j \in (i + 1)..Len(s) : s[j] = CLOSE
    THEN CHOOSE j \in (i + 1)..Len(s) :
            /\ s[j] = CLOSE
            /\ \A k \in (i + 1)..(j - 1) : s[k] # CLOSE
    ELSE 0

\* re.search: the leftmost position with a match, as << start, end >>, or None
Search(s) ==
    IF \E i \in 1..Len(s) : MatchEnd(s, i) # 0
    THEN LET i == CHOOSE i \in 1..Len(s) :
                    /\ MatchEnd(s, i) # 0
                    /\ \A k \in 1..(i - 1) : MatchEnd(s, k) = 0
         IN << i, MatchEnd(s, i) >>
    ELSE None

\* match.group(1)
Group1(s, m) == SubSeq(s, m[1] + 1, m[2] - 1)

Sub_FirstOnly(s) ==
    IF Search(s) = None THEN s
    ELSE SubSeq(s, 1, Search(s)[1] - 1) \o SubSeq(s, Search(s)[2] + 1, Len(s))

RECURSIVE Sub(_)
\* re.sub(pattern, '', s): every non-overlapping match removed, left to right
Sub(s) ==
    IF Search(s) = None THEN s
    ELSE SubSeq(s, 1, Search(s)[1] - 1) \o Sub(SubSeq(s, Search(s)[2] + 1, Len(s)))

\* ai_utils.py:225, 230: the fallback's "no replacement" answer and the length threshold
NO_REPLACEMENT == << "N", "O", "_", "R", "E", "P", "L", "A", "C", "E", "M", "E", "N", "T" >>
MinLength == 3

\* ai_utils.py:182 and ai_utils.py:240, the two diagnostic responses
NoKeyResponse == << "API key not configured." >>
ErrorResponse == << "Error: " >>

\* JSON values of the request body
JAbsent == [ t |-> "absent", s |-> << >> ]
JNum == [ t |-> "num", s |-> << >> ]
JStr(s) == [ t |-> "str", s |-> s ]

\* data.get(key, ''): an absent key reads as the empty string
Get(v) == IF v.t = "absent" THEN JStr(<< >>) ELSE v

Truthy_EmptyString(v) == v.t \in { "num", "str" }

\* Python truthiness of a JSON value (JNum is a number other than 0)
Truthy(v) == v.t = "num" \/ (v.t = "str" /\ v.s # << >>)

\* not suggested_text: None or the empty string
Falsy(opt) == opt = None \/ opt[1] = << >>

\* --------------------------------------------------- assistant inputs
SeqsUpTo(S, n) == UNION { [1..k -> S] : k \in 0..n }

\* user prompts: a keyword alone, in another case, inside a word, inside a
\* sentence, and prompts without any keyword
Prompts ==
    { << "f", "i", "x" >>,
      << "F", "i", "x" >>,
      << "f", "i", " ", "x" >>,
      << "x", "i", "f" >>,
      << "p", "r", "e", "f", "i", "x" >>,
      << "E", "D", "I", "T" >>,
      << "f", "i", "x", " ", "t", "h", "e", " ", "g", "r", "a", "m", "m", "a", "r" >>,
      << "w", "h", "a", "t", " ", "d", "o", "e", "s", " ", "t", "h", "i", "s", " ", "m", "e", "a", "n", "?" >>,
      << "i", "s", " ", "t", "h", "i", "s", " ", "b", "e", "t", "t", "e", "r", "?" >> }

Responses == SeqsUpTo({ OPEN, CLOSE, "a", " " }, MaxRespLen)

FallbackResponses ==
    SeqsUpTo({ "a", " " }, MaxFallbackLen) \cup
    { NO_REPLACEMENT, << " " >> \o NO_REPLACEMENT \o << "\n" >>, NO_REPLACEMENT \o << "a" >> }

Bodies ==
    { [ json |-> FALSE, selected_text |-> JAbsent, prompt |-> JAbsent, full_context |-> JAbsent ] }
    \cup
    [ json : { TRUE },
      selected_text : { JAbsent, JNum, JStr(<< >>), JStr(<< "s" >>) },
      prompt : { JAbsent, JNum, JStr(<< >>) } \cup { JStr(s) : s \in Prompts },
      full_context : { JAbsent, JNum, JStr(<< "c" >>) } ]

IdleAssist ==
    [ pc |-> "idle", selected_text |-> JAbsent, user_prompt |-> JAbsent,
      full_context |-> JAbsent, is_modification_request |-> FALSE,
      primary |-> None, extracted |-> None,
      response_text |-> << >>, suggested_text |-> None,
      status |-> 0, outcome |-> "none", result |-> None, log |-> << >>,
      body |-> None ]

\* the dict ai_assist_text returns
Result(response, suggested) == [ response |-> response, suggested_text |-> suggested ]

Returned(a, outcome, response, suggested) ==
    [ a EXCEPT !.pc = "done", !.status = 200, !.outcome = outcome,
               !.result = Some(Result(response, suggested)) ]

\* views.py:137: an exception out of ai_assist_text becomes a 500 response
Raised(a) == [ a EXCEPT !.pc = "done", !.status = 500, !.outcome = "raised" ]

\* views.py:126-129 and 135-136: the 400 responses
Rejected(a) == [ a EXCEPT !.pc = "done", !.status = 400, !.outcome = "rejected" ]

\* ai_utils.py:132-200: sanitise, check the client, classify, issue the primary call
ai_assist_text(a) ==
    IF a.selected_text.t # "str" THEN Raised(a)
    ELSE IF Truthy(a.full_context) /\ a.full_context.t # "str" THEN Raised(a)
    ELSE IF client = "none" THEN Returned(a, "noconfig", NoKeyResponse, None)
    ELSE IF a.user_prompt.t # "str" THEN Raised(a)
    ELSE [ a EXCEPT !.pc = "primary",
                    !.is_modification_request = is_modification_request(a.user_prompt.s),
                    !.log = << "primary:issued" >> ]

\* views.py ai_assist: parse the body, validate, call ai_assist_text
ai_assist ==
    /\ assist.pc = "idle"
    /\ \E body \in Bodies :
       LET a == [ IdleAssist EXCEPT !.body = Some(body),
                                    !.selected_text = Get(body.selected_text),
                                    !.user_prompt = Get(body.prompt),
                                    !.full_context = Get(body.full_context) ] IN
       IF ~body.json THEN assist' = Rejected([ IdleAssist EXCEPT !.body = Some(body) ])
       ELSE IF ~Truthy(a.selected_text) \/ ~Truthy(a.user_prompt) THEN assist' = Rejected(a)
       ELSE assist' = ai_assist_text(a)
    /\ UNCHANGED << client, loaded, documents, nextDocId, twins, nextTwinId, sync, lastReturned >>

AssistFailed_KeepSuggestion(a) == Returned(a, "error", ErrorResponse, a.suggested_text)

AssistFailed_Retry(a) ==
    IF a.pc = "primary"
    THEN [ a EXCEPT !.pc = "fallback", !.log = Append(a.log, "fallback:issued") ]
    ELSE Returned(a, "error", ErrorResponse, None)

\* ai_utils.py:238-242: the except branch
AssistFailed(a) == Returned(a, "error", ErrorResponse, None)

\* ai_utils.py:213: if not suggested_text and is_modification_request
NeedsFallback(suggested_text, modification) == Falsy(suggested_text) /\ modification

\* ai_utils.py:202-227: the primary call returns r; extract; maybe issue the fallback
\* call. The request's texts went into the prompt and are not read again.
PrimaryReturn ==
    /\ assist.pc = "primary"
    /\ \E r \in Responses :
       LET m == Search(r)
           suggested == IF m = None THEN None ELSE Some(Strip(Group1(r, m)))
           response == IF m = None THEN r ELSE Strip(Sub(r))
           a == [ assist EXCEPT !.primary = Some(r), !.response_text = response,
                                !.selected_text = JAbsent, !.full_context = JAbsent,
                                !.body = None,
                                !.suggested_text = suggested,
                                !.log = Append(assist.log, "primary:ok") ] IN
       IF NeedsFallback(suggested, assist.is_modification_request)
       THEN assist' = [ a EXCEPT !.pc = "fallback", !.log = Append(a.log, "fallback:issued") ]
       ELSE assist' = Returned(a, "ok", response, suggested)
    /\ UNCHANGED << client, loaded, documents, nextDocId, twins, nextTwinId, sync, lastReturned >>

\* the primary call raises
PrimaryFail ==
    /\ assist.pc = "primary"
    /\ assist' = AssistFailed([ assist EXCEPT !.log = Append(assist.log, "primary:failed") ])
    /\ UNCHANGED << client, loaded, documents, nextDocId, twins, nextTwinId, sync, lastReturned >>

\* ai_utils.py:230
Accepts(extracted) ==
    extracted # << >> /\ extracted # NO_REPLACEMENT /\ Len(extracted) > MinLength

\* ai_utils.py:229-236: the fallback call returns f
FallbackReturn ==
    /\ assist.pc = "fallback"
    /\ \E f \in FallbackResponses :
       LET extracted == Strip(f)
           suggested == IF Accepts(extracted) THEN Some(extracted) ELSE assist.suggested_text
           a == [ assist EXCEPT !.extracted = Some(extracted), !.suggested_text = suggested,
                                !.log = Append(assist.log, "fallback:ok") ] IN
       assist' = Returned(a, "ok", assist.response_text, suggested)
    /\ UNCHANGED << client, loaded, documents, nextDocId, twins, nextTwinId, sync, lastReturned >>

\* the fallback call raises
FallbackFail ==
    /\ assist.pc = "fallback"
    /\ assist' = AssistFailed([ assist EXCEPT !.log = Append(assist.log, "fallback:failed") ])
    /\ UNCHANGED << client, loaded, documents, nextDocId, twins, nextTwinId, sync, lastReturned >>

\* ------------------------------------------------------ specification
Init ==
    /\ client \in {"none", "configured"}
    /\ documents = {}
    /\ nextDocId = 1
    /\ twins = {}
    /\ nextTwinId = 1
    /\ sync = [ p \in Procs |-> IdleSync ]
    /\ lastReturned = [ d \in DocIds |-> None ]
    /\ assist = IdleAssist
    /\ loaded = None

Next ==
    \/ \E p \in Procs, d \in DocIds : SyncStart(p, d)
    \/ \E p \in Procs, t \in Texts : CallReturn(p, t)
    \/ \E p \in Procs : CallFail(p)
    \/ \E p \in Procs : GetOrCreateCreate(p)
    \/ \E p \in Procs : Save(p)
    \/ \E p \in Procs : StoreFault(p)
    \/ \E parent_id \in {NoParent} \cup DocIds : create_document(parent_id)
    \/ \E doc_id \in DocIds : delete_document(doc_id)

Spec == Init /\ [][Next]_vars

\* one sync_ai_twin request next to the requests that read the store
Syncer == CHOOSE p \in Procs : \A q \in Procs : p <= q

NextRead ==
    \/ \E d \in DocIds : SyncStart(Syncer, d)
    \/ \E t \in Texts : CallReturn(Syncer, t)
    \/ CallFail(Syncer)
    \/ GetOrCreateCreate(Syncer)
    \/ Save(Syncer)
    \/ StoreFault(Syncer)
    \/ \E parent_id \in {NoParent} \cup DocIds : create_document(parent_id)
    \/ \E doc_id \in DocIds : delete_document(doc_id)
    \/ \E doc_id \in DocIds : get_document(doc_id)

SpecRead == Init /\ [][NextRead]_vars

\* the document handlers, one request after the other
NextDocs ==
    \/ \E parent_id \in {NoParent} \cup DocIds : create_document(parent_id)
    \/ \E doc_id \in DocIds, method \in {"GET", "POST"},
          title \in {None} \cup { Some(t) : t \in Titles },
          content \in {None} \cup { Some(c) : c \in Contents } :
          update_document(doc_id, method, title, content)
    \/ \E doc_id \in DocIds : delete_document(doc_id)
    \/ \E order_list \in OrderLists : reorder_documents(order_list)

SpecDocs == Init /\ [][NextDocs]_vars

NextAssist ==
    \/ ai_assist
    \/ PrimaryReturn
    \/ PrimaryFail
    \/ FallbackReturn
    \/ FallbackFail

SpecAssist == Init /\ [][NextAssist]_vars

\* ============================================================== claims
\* ---------------------------------------------------------------- C1
\* C1: whenever generate_twin_content returns a failure result (the warning
\* block or the error block), the AITwin store is as it was before the call:
\* no row this call inserted is in the store.
C1_NoOverwriteOnFailure ==
    \A p \in Procs :
        (sync[p].pc = "done" /\ sync[p].outcome \in {"noconfig", "error"})
            => ~(sync[p].created /\ \E r \in twins : r.id = sync[p].twin)

\* ---------------------------------------------------------------- C2
\* C2: after a successful generate_twin_content for d returned t, and until the
\* next successful sync or the deletion of d, get_twin_content(d) is exactly t.
C2_PersistenceOnSuccess ==
    \A d \in DocIds : lastReturned[d] # None => get_twin_content(d) = lastReturned[d]

\* one document, synced twice with different answers: created, then overwritten
C2_Witness ==
    /\ nextDocId = 2
    /\ \E p, q \in Procs :
        /\ sync[p].pc = "done" /\ sync[p].outcome = "ok"
        /\ sync[q].pc = "done" /\ sync[q].outcome = "ok"
        /\ sync[p].result # sync[q].result
        /\ lastReturned[1] = sync[q].result
        /\ get_twin_content(1) = sync[q].result

\* -------------------------------------------- the assistant's claims
\* what the claims say of a text, stated without the operators of the model
HasSpan(r) == \E i, j \in 1..Len(r) : i < j /\ r[i] = OPEN /\ r[j] = CLOSE

\* the first delimiter-bounded span that starts at or after position k
SpanStart(r, k) ==
    CHOOSE i \in k..Len(r) :
        /\ r[i] = OPEN /\ \E j \in (i + 1)..Len(r) : r[j] = CLOSE
        /\ \A h \in k..(i - 1) : ~(r[h] = OPEN /\ \E j \in (h + 1)..Len(r) : r[j] = CLOSE)

SpanEnd(r, k) ==
    CHOOSE j \in (SpanStart(r, k) + 1)..Len(r) :
        /\ r[j] = CLOSE
        /\ \A h \in (SpanStart(r, k) + 1)..(j - 1) : r[h] # CLOSE

Payload(r) == SubSeq(r, SpanStart(r, 1) + 1, SpanEnd(r, 1) - 1)

WithoutFirstSpan(r) ==
    SubSeq(r, 1, SpanStart(r, 1) - 1) \o SubSeq(r, SpanEnd(r, 1) + 1, Len(r))

RECURSIVE Outside(_, _)
\* the text of r from position k on that lies in no span
Outside(r, k) ==
    IF HasSpan(SubSeq(r, k, Len(r)))
    THEN SubSeq(r, k, SpanStart(r, k) - 1) \o Outside(r, SpanEnd(r, k) + 1)
    ELSE SubSeq(r, k, Len(r))

\* s without its leading and trailing whitespace
Trimmed(s) ==
    LET ink == { i \in 1..Len(s) : s[i] \notin Whitespace } IN
    IF ink = {} THEN << >>
    ELSE SubSeq(s, CHOOSE i \in ink : \A h \in ink : i <= h,
                   CHOOSE i \in ink : \A h \in ink : h <= i)

\* the prompt contains a modification keyword, case-insensitively
KeywordOccurs(p) ==
    \E kw \in modification_keywords : \E off \in 0..(Len(p) - Len(kw)) :
        \A k \in 1..Len(kw) : LowerChar(p[off + k]) = kw[k]

Issued == { "primary:issued", "fallback:issued" }
CallsIssued == Cardinality({ i \in 1..Len(assist.log) : assist.log[i] \in Issued })
FallbackCalls == Cardinality({ i \in 1..Len(assist.log) : assist.log[i] = "fallback:issued" })
CallFailed == \E i \in 1..Len(assist.log) : assist.log[i] \in { "primary:failed", "fallback:failed" }

\* ---------------------------------------------------------------- C3
\* C3: when the primary call succeeded and its response has no delimited
\* span, the fallback call is made exactly once if the prompt contains a
\* modification keyword (in any case, as a substring), and never otherwise.
C3_FallbackGating ==
    (assist.primary # None /\ ~HasSpan(assist.primary[1]))
        => FallbackCalls = (IF KeywordOccurs(assist.user_prompt.s) THEN 1 ELSE 0)

\* a keyword in capitals, an untagged answer, one fallback call made and answered
C3_Witness ==
    /\ assist.pc = "done"
    /\ assist.primary # None /\ ~HasSpan(assist.primary[1])
    /\ assist.user_prompt.s # Lower(assist.user_prompt.s)
    /\ assist.log = << "primary:issued", "primary:ok", "fallback:issued", "fallback:ok" >>

\* ---------------------------------------------------------------- C4
\* C4: for every prompt and every primary response that contains a delimited
\* span, whatever its payload, no second external call is issued.
C4_NoFallbackWhenSpan ==
    (assist.primary # None /\ HasSpan(assist.primary[1])) => FallbackCalls = 0

\* ---------------------------------------------------------------- C5
\* C5: for every input accepted by the boundary validation and every outcome
\* of the external calls, ai_assist_text returns a result and never raises;
\* when an external call failed, the result is the diagnostic response with
\* suggested_text null.
C5_AssistTotal ==
    (assist.pc = "done" /\ assist.outcome # "rejected")
        => /\ assist.outcome # "raised"
           /\ assist.result # None
           /\ CallFailed => assist.result = Some(Result(ErrorResponse, None))

\* ---------------------------------------------------------------- C6
\* C6: with no credential configured, generate_twin_content and
\* ai_assist_text return their fixed diagnostic output whatever the input,
\* make no external call, and generate_twin_content writes no twin.
C6_ConfigMissing ==
    client = "none" =>
        /\ \A p \in Procs :
              (sync[p].pc = "done" /\ sync[p].outcome # "404")
                  => /\ sync[p].result = Some(WarningBlock)
                     /\ sync[p].calls = 0
                     /\ ~sync[p].created
        /\ twins = {}
        /\ (assist.pc = "done" /\ assist.outcome # "rejected")
              => /\ assist.result = Some(Result(NoKeyResponse, None))
                 /\ assist.log = << >>

\* ---------------------------------------------------------------- C7
\* C7: whenever the fallback call is made and its trimmed response is empty,
\* is NO_REPLACEMENT or is not longer than 3 characters, the returned
\* suggested_text is null; otherwise it is the trimmed fallback response.
C7_FallbackRejection ==
    (assist.pc = "done" /\ assist.extracted # None)
        => LET e == assist.extracted[1] IN
           assist.result[1].suggested_text =
               (IF e = << >> \/ e = NO_REPLACEMENT \/ Len(e) <= 3 THEN None ELSE Some(e))

C9_CallOrdering ==
    /\ CallsIssued <= 2
    /\ \A i \in 1..Len(assist.log) :
          assist.log[i] = "fallback:issued"
              => i = 3 /\ assist.log[1] = "primary:issued" /\ assist.log[2] = "primary:ok"
    /\ assist.pc = "fallback" => assist.log[Len(assist.log)] = "fallback:issued"
    /\ assist.pc = "primary" => assist.log = << "primary:issued" >>

\* the fallback call is in flight
C9_Witness ==
    /\ assist.pc = "fallback"
    /\ assist.log = << "primary:issued", "primary:ok", "fallback:issued" >>

\* --------------------------------------------------------------- C10
\* C10: in every reachable store state there is at most one AITwin row per
\* document, also when concurrent syncs of one document both find no twin.
C10_AtMostOneTwin ==
    \A d \in DocIds : Cardinality(TwinRows(d)) <= 1

\* a request that found no twin is about to insert one that another request
\* has inserted meanwhile
C10_Witness ==
    \E p, q \in Procs :
        /\ p # q
        /\ sync[q].pc = "create"
        /\ sync[p].pc = "save" /\ sync[p].created
        /\ sync[p].document = sync[q].document
        /\ TwinRows(sync[q].document) # {}

\* the parent of document e in the current store, NoParent when e has no row
ParentOf(e) ==
    IF DocumentExists(e) THEN (CHOOSE r \in documents : r.id = e).parent ELSE NoParent

RECURSIVE Below(_, _, _)
\* e is d or is reached from d by following parent links downwards (n links at most)
Below(e, d, n) ==
    \/ e = d
    \/ n > 0 /\ ParentOf(e) # NoParent /\ Below(ParentOf(e), d, n - 1)

TwinsReferToDocuments == \A r \in twins : DocumentExists(r.document)

\* a step that removes the row of d removes d's whole subtree and its twins
DeleteCascades ==
    \A d \in DocIds :
        (DocumentExists(d) /\ ~DocumentExists(d)') =>
            \A e \in DocIds :
                Below(e, d, MaxDocs) =>
                    /\ ~DocumentExists(e)'
                    /\ \A r \in twins' : r.document # e

\* C11: after delete_document(d) neither d nor any descendant of d exists and
\* no twin exists for any of them; in every reachable state every twin refers
\* to an existing document, also when a generate_twin_content call is in
\* flight while its document is deleted
C11_CascadeDelete == [] TwinsReferToDocuments /\ [][DeleteCascades]_vars

\* a request that inserted the twin of its document is about to save it, and
\* the document and the twin have been deleted in the meantime
C11_Witness ==
    \E p \in Procs :
        /\ sync[p].pc = "save"
        /\ sync[p].created
        /\ ~DocumentExists(sync[p].document)
        /\ TwinRows(sync[p].document) = {}

\* a key of the request body that is missing or holds the empty string
MissingOrEmpty(v) == v.t = "absent" \/ (v.t = "str" /\ v.s = << >>)

PersistedTwin(d) ==
    IF \E r \in twins : r.document = d
    THEN Some((CHOOSE r \in twins : r.document = d).content_ai)
    ELSE None

\* a step in which get_document answers
RetrievalReadsOnly ==
    loaded' # loaded =>
        /\ << documents, nextDocId, twins, nextTwinId, lastReturned >>' =
               << documents, nextDocId, twins, nextTwinId, lastReturned >>
        /\ sync' = sync
        /\ assist' = assist
        /\ \A d \in DocIds :
               (loaded'[1].status = 200 /\ loaded'[1].doc[1].id = d) =>
                   /\ DocumentExists(d)
                   /\ loaded'[1].ai_content = PersistedTwin(d)

\* C13: get_twin_content(d), and get_document through it, returns the
\* persisted twin content when a twin exists and None otherwise, issues no
\* external call and leaves the document store and the twin store unchanged
C13_RetrievalReadOnly == [][RetrievalReadsOnly]_vars

\* get_document has returned the text a sync stored, while another document
\* has no twin
C13_Witness ==
    /\ loaded # None
    /\ loaded[1].status = 200
    /\ loaded[1].ai_content \in { Some(t) : t \in Texts }
    /\ \E d \in DocIds : DocumentExists(d) /\ TwinRows(d) = {}

\* the order list names documents only, each once
DistinctIds(L) ==
    /\ \A i \in 1..Len(L) : L[i] \in DocIds
    /\ \A i, j \in 1..Len(L) : i # j => L[i] # L[j]

Named(L) == { L[i] : i \in 1..Len(L) }

RowOf(D, d) == CHOOSE r \in D : r.id = d

\* the effect and the frame of reorder_documents with list L: the table
\* before the call is documents, the table after it is After
ReorderEffect(L, After) ==
    /\ { r.id : r \in After } = { r.id : r \in documents }
    /\ Cardinality(After) = Cardinality(documents)
    /\ \A i \in 1..Len(L) :
           DocumentExists(L[i]) => RowOf(After, L[i]).order = i - 1
    /\ \A r \in documents :
           /\ RowOf(After, r.id).parent = r.parent
           /\ RowOf(After, r.id).title = r.title
           /\ RowOf(After, r.id).content = r.content
           /\ r.id \notin Named(L) => RowOf(After, r.id).order = r.order

\* C15: after reorder_documents with an order list L of distinct ids every
\* existing document L[i] has order i (positions counted from 0); parent,
\* title and content of every document and the order of every document not
\* in L are unchanged, ids in L without a document are ignored and no
\* document is created or deleted
C15_ReorderEffectAndFrame ==
    \A L \in OrderLists : DistinctIds(L) => ReorderEffect(L, Reordered(L))

\* an edited document that a reorder has moved behind its sibling, the list
\* naming both
C15_Witness ==
    \E r1, r2 \in documents :
        /\ r1.parent = r2.parent
        /\ r1.order = 1 /\ r1.title = "T" /\ r1.content = "c"
        /\ r2.order = 0 /\ r2.id > r1.id

\* following parent links upwards from document d leads back to d
OnCycle(d) == ParentOf(d) # NoParent /\ Below(ParentOf(d), d, MaxDocs)

\* C16: in every store state reachable by create_document, update_document,
\* delete_document and reorder_documents the parent relation is acyclic and
\* every non-null parent refers to an existing document
C16_Forest ==
    /\ \A r \in documents : r.parent # NoParent => DocumentExists(r.parent)
    /\ \A r \in documents : ~OnCycle(r.id)

\* a child under an existing parent, after an update and a reorder of both
C16_Witness ==
    \E r1, r2 \in documents :
        /\ r2.parent = r1.id
        /\ r1.title = "T" /\ r2.content = "c"
        /\ r1.order = 1 /\ r2.order = 0

\* C17: in every reachable state the content of an existing twin is a text
\* that a successful external call returned, and what get_document has read
\* from a twin is such a text: never the empty placeholder of get_or_create,
\* never a diagnostic block
C17_ObservableTwinContent ==
    /\ \A r \in twins : r.content_ai \in Texts
    /\ (loaded # None /\ loaded[1].status = 200 /\ loaded[1].ai_content # None) =>
           loaded[1].ai_content[1] \in Texts

\* the response the primary reply r stands for: r itself when it has no
\* delimited span, else r with every span removed, trimmed
PrimaryText(r) == IF HasSpan(r) THEN Trimmed(Outside(r, 1)) ELSE r

FallbackSucceeded == \E i \in 1..Len(assist.log) : assist.log[i] = "fallback:ok"

\* C18: in every result of ai_assist_text with a non-null suggested_text every
\* external call the request issued succeeded and response is the text of the
\* primary response with the delimited spans removed; a successful fallback
\* call leaves response as the primary call set it
C18_NoSuggestionWithError ==
    (assist.pc = "done" /\ assist.result # None) =>
        /\ assist.result[1].suggested_text # None =>
               /\ ~CallFailed
               /\ assist.primary # None
               /\ assist.result[1].response = PrimaryText(assist.primary[1])
        /\ FallbackSucceeded =>
               assist.result[1].response = PrimaryText(assist.primary[1])

\* a reply with a blank span and text around it, then a fallback answer that
\* is accepted: the suggestion is the fallback's, the response the primary's
C18_Witness ==
    /\ assist.pc = "done"
    /\ FallbackSucceeded
    /\ assist.primary # None
    /\ HasSpan(assist.primary[1])
    /\ assist.result[1].response = << "a" >>
    /\ assist.result[1].suggested_text = Some(<< "a", " ", "a", "a" >>)
====
